---- MODULE Spec2Model ----
(***************************************************************************)
(* RMSG: a repeated defender/attacker deception game.                      *)
(*   - StrategyEngine.compute_optimal_placement : 0/1 knapsack placement   *)
(*   - HoneyMatrixController                    : round loop + flow tables *)
(*   - get_weighted_probs / build_transition_matrix_from_counts            *)
(*                                              : kill-chain Markov matrix *)
(* Real-valued quantities are exact rationals in fixed units:              *)
(*   impact in tenths, prob in hundredths, weights in millionths.          *)
(***************************************************************************)
EXTENDS Integers, Sequences, FiniteSets

VARIABLES
    budget,            \* StrategyEngine.budget
    snapshot_file,     \* network_state.json at start-up: "present" or "absent"
    nodes_data,        \* HoneyMatrixController.nodes_data (list of node records)
    datapaths,         \* HoneyMatrixController.datapaths (ids of connected switches)
    flows,             \* flow table of every switch: a list of entries
    game_thread,       \* the greenlet running game_loop: "alive" or "dead"
    round_count,       \* game_loop: round_count
    status,            \* model.status of the latest optimize() ("NONE" before the first)
    honeypot_nodes,    \* game_loop: names returned by compute_optimal_placement
    active_honey_ips,  \* game_loop: addresses handed to update_honeypot_flows
    round_dps,         \* the switches the latest update_honeypot_flows iterated over
    flows_before,      \* history: the flow tables when the latest round began
    prev,              \* history: the update_honeypot_flows call before the latest one
    results,           \* history: every (status, returned list) of an optimizer call
    counts,            \* the Counter of observed state frequencies (may lack states)
    use_log,           \* the use_log / --use_log_scale argument
    targets,           \* get_weighted_probs: the list of destination states
    data_probs,        \* get_weighted_probs: data_probs
    mixed_probs,       \* get_weighted_probs: final_probs before the last division
    final_probs,       \* get_weighted_probs: the returned list
    called,            \* whether the function under study has returned
    mat,               \* the transition matrix (rows and columns keyed by state)
    built,             \* whether build_transition_matrix_from_counts has returned
    current_state,     \* the attacker's current kill-chain state
    chan,              \* per switch: OpenFlow messages sent by the controller, not yet applied
    mac_to_port,       \* HoneyMatrixController.mac_to_port: per switch, address -> port
    packet_in,         \* packet-in events waiting for _packet_in_handler
    delivered,         \* history: packets a switch has output on a port
    arrivals,          \* number of packets that have arrived at switches
    pool,              \* CVEDataLoader.pool: the list of vulnerability records
    vuln_info,         \* the record the latest get_random_vuln call returned
    hosts,             \* FourZoneTopo: the node_params of the hosts added so far
    topo,              \* FourZoneTopo.build: "building", or "crashed" by an exception
    calls              \* number of get_random_vuln calls made

ctlVars == <<budget, snapshot_file, nodes_data, datapaths, flows, game_thread, round_count, status,
             honeypot_nodes, active_honey_ips, round_dps, flows_before, prev, results>>

probVars == <<targets, data_probs, mixed_probs, final_probs, called>>

matVars == <<mat, built, current_state>>

inVars == <<counts, use_log>>

netVars == <<chan, mac_to_port, packet_in, delivered, arrivals>>

loaderVars == <<pool, vuln_info, hosts, topo, calls>>

----------------------------------------------------------------------------
(* Bounds *)

NumAssets == 4      \* the asset snapshot is drawn from the first NumAssets pool entries
NumSwitches == 2    \* switches that may connect
MaxRounds == 3      \* rounds of the game loop that are explored
MaxCount == 2       \* largest observed frequency of a state
MaxTargets == 2     \* longest destination list given to get_weighted_probs
MixLen == 3         \* longest distribution given to the mixing step alone
MaxDen == 6         \* largest denominator of a distribution given to the mixing step
NetAssets == 2      \* hosts of the network in the message-level model
NetRounds == 2      \* rounds explored in the message-level model
MaxInFlight == 3    \* messages queued toward one switch (the send queue is bounded)
MaxPackets == 2     \* packets that arrive at switches
MaxPool == 2        \* records in the vulnerability pool
MaxCalls == 3       \* calls of get_random_vuln that are explored

----------------------------------------------------------------------------
(* Asset snapshot (network_state.json): name, ip, impact, prob, cost.      *)
(* impact is in tenths, prob in hundredths.  The first five entries are    *)
(* the engine's own test data; biz_1 drew the same vulnerability as dmz_1. *)

AssetPool ==
    << [name |-> "dmz_1",    ip |-> "10.0.2.11", impact |-> 98, prob |-> 39, cost |-> 5],
       [name |-> "office_1", ip |-> "10.0.5.11", impact |-> 70, prob |-> 20, cost |-> 1],
       [name |-> "office_2", ip |-> "10.0.5.12", impact |-> 65, prob |-> 20, cost |-> 1],
       [name |-> "biz_1",    ip |-> "10.0.4.11", impact |-> 98, prob |-> 39, cost |-> 5],
       [name |-> "dmz_2",    ip |-> "10.0.2.12", impact |-> 94, prob |-> 39, cost |-> 5],
       [name |-> "ops_1",    ip |-> "10.0.3.11", impact |-> 85, prob |-> 30, cost |-> 5] >>

Budgets == {3, 5, 6, 15}

Switches == 1..NumSwitches

RECURSIVE SumOver(_, _)
\* the sum of f[i] over the finite set S of indices
SumOver(S, f) ==
    IF S = {} THEN 0
    ELSE LET i == CHOOSE j \in S : TRUE IN f[i] + SumOver(S \ {i}, f)

RECURSIVE PickSeq(_, _, _)
\* the sub-list of entries (in order) whose indices are in idx, from position i on
PickSeq(entries, idx, i) ==
    IF i > Len(entries) THEN <<>>
    ELSE IF i \in idx THEN <<entries[i]>> \o PickSeq(entries, idx, i + 1)
         ELSE PickSeq(entries, idx, i + 1)

NodeLists == { PickSeq(AssetPool, idx, 1) : idx \in SUBSET (1..NumAssets) }

NodeKeys == {"name", "ip", "impact", "prob", "cost"}

\* the entry without the key k
Strip(node, k) == [f \in (DOMAIN node) \ {k} |-> node[f]]

\* snapshots in which one entry lacks one key
MalformedLists ==
    UNION { { [l EXCEPT ![i] = Strip(l[i], k)] : i \in DOMAIN l, k \in NodeKeys } :
            l \in NodeLists }

----------------------------------------------------------------------------
(* StrategyEngine.compute_optimal_placement                                *)

RECURSIVE obj_expr(_, _, _)
\* sum over i of x[i] * (impact * prob), x given as the set of indices set to 1
obj_expr(nodes, x, i) ==
    IF i > Len(nodes) THEN 0
    ELSE (IF i \in x THEN nodes[i].impact * nodes[i].prob ELSE 0)
         + obj_expr(nodes, x, i + 1)

RECURSIVE cost_expr(_, _, _)
\* sum over i of x[i] * cost
cost_expr(nodes, x, i) ==
    IF i > Len(nodes) THEN 0
    ELSE (IF i \in x THEN nodes[i].cost ELSE 0) + cost_expr(nodes, x, i + 1)

Resource_Limit_Slack(nodes, x, b) == cost_expr(nodes, x, 1) <= b + 1

\* model.addConstr(cost_expr <= self.budget)
Resource_Limit(nodes, x, b) == cost_expr(nodes, x, 1) <= b

\* the binary assignments the constraint admits
FeasibleAssignments(nodes, b) ==
    { x \in SUBSET (1..Len(nodes)) : Resource_Limit(nodes, x, b) }

RECURSIVE impact_expr(_, _, _)
impact_expr(nodes, x, i) ==
    IF i > Len(nodes) THEN 0
    ELSE (IF i \in x THEN nodes[i].impact ELSE 0) + impact_expr(nodes, x, i + 1)

Objective_ImpactOnly(nodes, x) == impact_expr(nodes, x, 1)

\* model.setObjective(obj_expr, GRB.MAXIMIZE)
Objective(nodes, x) == obj_expr(nodes, x, 1)

\* model.optimize(): the outcomes the solver may report.  With status OPTIMAL
\* the assignment maximises the objective over the feasible assignments (ties
\* broken arbitrarily); INFEASIBLE when nothing is feasible; the solver may
\* also stop without an optimum (interrupt, numerical trouble).
Optimize(nodes, b) ==
    LET F    == FeasibleAssignments(nodes, b)
        best == CHOOSE v \in { Objective(nodes, z) : z \in F } :
                    \A w \in { Objective(nodes, z) : z \in F } : w <= v
    IN { [status |-> "OPTIMAL", x |-> x] : x \in { y \in F : Objective(nodes, y) = best } }
       \cup (IF F = {} THEN { [status |-> "INFEASIBLE", x |-> {}] } ELSE {})
       \cup { [status |-> "INTERRUPTED", x |-> {}] }

RECURSIVE SelectedNames(_, _, _)
\* for i, node in enumerate(nodes_data): if x[i].x > 0.5: append(node['name'])
SelectedNames(nodes, x, i) ==
    IF i > Len(nodes) THEN <<>>
    ELSE (IF i \in x THEN <<nodes[i].name>> ELSE <<>>) \o SelectedNames(nodes, x, i + 1)

\* the list compute_optimal_placement returns for a solver outcome
compute_optimal_placement(nodes, outcome) ==
    IF outcome.status = "OPTIMAL" THEN SelectedNames(nodes, outcome.x, 1) ELSE <<>>

\* node[k] raises KeyError unless the entry has the key k
Has(node, k) == k \in DOMAIN node

\* building the objective and the constraint reads 'impact', 'prob' and 'cost'
\* of every entry, before the solver runs
ComputeKeyError(nodes) ==
    \E i \in DOMAIN nodes :
        ~Has(nodes[i], "impact") \/ ~Has(nodes[i], "prob") \/ ~Has(nodes[i], "cost")

\* parsing an optimal result reads 'name' of every selected entry
ParseKeyError(nodes, outcome) ==
    outcome.status = "OPTIMAL" /\ \E i \in outcome.x : ~Has(nodes[i], "name")

----------------------------------------------------------------------------
(* HoneyMatrixController                                                   *)

Range(s) == { s[i] : i \in DOMAIN s }

\* OFPMatch(eth_type=0x0800, ipv4_dst=ip); unset fields are wildcards
HoneyMatch(ip) == [in_port |-> 0, eth_dst |-> "*", eth_src |-> "*",
                   eth_type |-> 2048, ipv4_dst |-> ip]

\* OFPMatch()
AnyMatch == [in_port |-> 0, eth_dst |-> "*", eth_src |-> "*",
             eth_type |-> 0, ipv4_dst |-> "*"]

FlowEntry(priority, match, out) == [priority |-> priority, match |-> match, out |-> out]

SameKey(a, b) == a.priority = b.priority /\ a.match = b.match

AddFlowAppend(table, e) == Append(table, e)

\* add_flow: an OFPFlowMod (command ADD) sent to the switch.  An entry with the
\* same match and priority is replaced, otherwise the entry is added.
AddFlow(table, e) ==
    IF \E i \in DOMAIN table : SameKey(table[i], e)
    THEN [i \in DOMAIN table |-> IF SameKey(table[i], e) THEN e ELSE table[i]]
    ELSE Append(table, e)

RECURSIVE InstallHoney(_, _, _)
\* for ip in honey_ips: add_flow(datapath, priority=100, match, [to controller])
InstallHoney(table, honey_ips, i) ==
    IF i > Len(honey_ips) THEN table
    ELSE InstallHoney(AddFlow(table, FlowEntry(100, HoneyMatch(honey_ips[i]), "CONTROLLER")),
                      honey_ips, i + 1)

UpdateHoneypotFlowsReplace(fl, dps, honey_ips) ==
    [sw \in DOMAIN fl |->
        IF sw \in dps
        THEN InstallHoney(SelectSeq(fl[sw], LAMBDA e : e.priority # 100), honey_ips, 1)
        ELSE fl[sw]]

\* update_honeypot_flows: for every connected switch, install every address
update_honeypot_flows(fl, dps, honey_ips) ==
    [sw \in DOMAIN fl |->
        IF sw \in dps THEN InstallHoney(fl[sw], honey_ips, 1) ELSE fl[sw]]

RECURSIVE IpsOf(_, _, _)
\* for node in nodes_data: if node['name'] in honeypot_nodes: append(node['ip'])
IpsOf(nodes, names, i) ==
    IF i > Len(nodes) THEN <<>>
    ELSE (IF nodes[i].name \in Range(names) THEN <<nodes[i].ip>> ELSE <<>>)
         \o IpsOf(nodes, names, i + 1)

\* game_loop reads 'name' of every entry and 'ip' of every selected entry
LoopKeyError(nodes, names) ==
    \E i \in DOMAIN nodes :
        IF Has(nodes[i], "name")
        THEN nodes[i].name \in Range(names) /\ ~Has(nodes[i], "ip")
        ELSE TRUE

\* addresses with a honeypot (priority 100) rule in a flow table
HoneyIps(table) ==
    { table[i].match.ipv4_dst : i \in { j \in DOMAIN table : table[j].priority = 100 } }

\* addresses with a honeypot rule on some connected switch
Enforced == UNION { HoneyIps(flows[sw]) : sw \in datapaths }

CtlInit ==
    /\ budget \in Budgets
    /\ snapshot_file = "present"
    /\ nodes_data \in NodeLists
    /\ datapaths = {}
    /\ flows = [sw \in Switches |-> <<>>]
    /\ game_thread = "alive"
    /\ round_count = 0
    /\ status = "NONE"
    /\ honeypot_nodes = <<>>
    /\ active_honey_ips = <<>>
    /\ round_dps = {}
    /\ flows_before = flows
    /\ prev = [ran |-> FALSE, ips |-> <<>>, dps |-> {}]
    /\ results = {}

\* switch_features_handler: record the datapath, install the table-miss entry
SwitchFeatures ==
    \E sw \in Switches \ datapaths :
        /\ datapaths' = datapaths \cup {sw}
        /\ flows' = [flows EXCEPT ![sw] = AddFlow(@, FlowEntry(0, AnyMatch, "CONTROLLER"))]
        /\ UNCHANGED <<budget, snapshot_file, nodes_data, game_thread, round_count, status,
                       honeypot_nodes,
                       active_honey_ips, round_dps, flows_before, prev, results,
                       inVars, probVars, matVars, netVars, loaderVars>>

\* game_loop, one iteration with no node data: warn, sleep, continue
RoundNoData ==
    /\ game_thread = "alive"
    /\ round_count < MaxRounds
    /\ nodes_data = <<>>
    /\ round_count' = round_count + 1
    /\ UNCHANGED <<budget, snapshot_file, nodes_data, datapaths, flows, game_thread, status,
                   honeypot_nodes,
                   active_honey_ips, round_dps, flows_before, prev, results,
                   inVars, probVars, matVars, netVars, loaderVars>>

\* game_loop, one iteration: optimise, map names to addresses, push flows, sleep
Round ==
    /\ game_thread = "alive"
    /\ round_count < MaxRounds
    /\ nodes_data # <<>>
    /\ ~ComputeKeyError(nodes_data)
    /\ \E outcome \in Optimize(nodes_data, budget) :
         LET names == compute_optimal_placement(nodes_data, outcome)
             ips   == IpsOf(nodes_data, names, 1)
         IN /\ ~ParseKeyError(nodes_data, outcome)
            /\ ~LoopKeyError(nodes_data, names)
            /\ round_count' = round_count + 1
            /\ status' = outcome.status
            /\ honeypot_nodes' = names
            /\ active_honey_ips' = ips
            /\ flows' = update_honeypot_flows(flows, datapaths, ips)
            /\ round_dps' = datapaths
            /\ flows_before' = flows
            /\ prev' = [ran |-> status # "NONE", ips |-> active_honey_ips,
                        dps |-> round_dps]
            /\ results' = results \cup {[status |-> outcome.status, ret |-> names]}
    /\ UNCHANGED <<budget, snapshot_file, nodes_data, datapaths, game_thread,
                   inVars, probVars, matVars, netVars, loaderVars>>

\* game_loop, one iteration ended by a KeyError: an entry of the snapshot lacks
\* a key the round reads.  Nothing catches the exception, so the greenlet that
\* runs game_loop ends; no flow is sent in that iteration.
RoundKeyError ==
    /\ game_thread = "alive"
    /\ round_count < MaxRounds
    /\ nodes_data # <<>>
    /\ round_count' = round_count + 1
    /\ game_thread' = "dead"
    /\ flows_before' = flows
    /\ \/ /\ ComputeKeyError(nodes_data)
          /\ UNCHANGED <<status, honeypot_nodes, results>>
       \/ /\ ~ComputeKeyError(nodes_data)
          /\ \E outcome \in Optimize(nodes_data, budget) :
                /\ status' = outcome.status
                /\ \/ /\ ParseKeyError(nodes_data, outcome)
                      /\ UNCHANGED <<honeypot_nodes, results>>
                   \/ /\ ~ParseKeyError(nodes_data, outcome)
                      /\ LoopKeyError(nodes_data, compute_optimal_placement(nodes_data, outcome))
                      /\ honeypot_nodes' = compute_optimal_placement(nodes_data, outcome)
                      /\ results' = results \cup {[status |-> outcome.status,
                                                    ret |-> honeypot_nodes']}
    /\ UNCHANGED <<budget, snapshot_file, nodes_data, datapaths, flows, active_honey_ips,
                   round_dps, prev, inVars, probVars, matVars, netVars, loaderVars>>

----------------------------------------------------------------------------
(* The controller and its switches at the level of OpenFlow messages:      *)
(* every add_flow and packet-out is a message queued toward one switch,    *)
(* which applies its messages one at a time, in order.  A host's Ethernet  *)
(* address is written as the host's name.                                  *)

ControllerBudget == 15

IPv4 == 2048

LLDP == 35020

NetHosts == { AssetPool[i] : i \in 1..NetAssets }

NetNodeLists == { PickSeq(AssetPool, idx, 1) : idx \in SUBSET (1..NetAssets) }

\* packets between two hosts of the network, and a link-discovery frame
Packets ==
    { [eth_src |-> p[1].name, eth_dst |-> p[2].name, eth_type |-> IPv4,
       ipv4_dst |-> p[2].ip] : p \in { q \in NetHosts \X NetHosts : q[1] # q[2] } }
    \cup { [eth_src |-> "switch", eth_dst |-> "lldp", eth_type |-> LLDP, ipv4_dst |-> "*"] }

\* the port of a switch behind which the sender of a frame lies
InPort(pkt) ==
    IF \E i \in 1..NetAssets : AssetPool[i].name = pkt.eth_src
    THEN CHOOSE i \in 1..NetAssets : AssetPool[i].name = pkt.eth_src
    ELSE NetAssets + 1

\* OFPActionOutput(port), written as the entry's output
PortName(port) == <<"1", "2", "3", "4", "5", "6", "7">>[port]

\* OFPMatch(in_port=in_port, eth_dst=dst, eth_src=src)
L2Match(in_port, dst, src) ==
    [in_port |-> in_port, eth_dst |-> dst, eth_src |-> src, eth_type |-> 0, ipv4_dst |-> "*"]

\* a flow entry's match applied to a frame that came in on in_port
Matches(match, in_port, pkt) ==
    /\ match.in_port \in {0, in_port}
    /\ match.eth_dst \in {"*", pkt.eth_dst}
    /\ match.eth_src \in {"*", pkt.eth_src}
    /\ match.eth_type \in {0, pkt.eth_type}
    /\ match.ipv4_dst \in {"*", pkt.ipv4_dst}

\* the switch's table lookup: the output of the matching entry of highest
\* priority, "DROP" when no entry matches
Lookup(table, in_port, pkt) ==
    LET M == { i \in DOMAIN table : Matches(table[i].match, in_port, pkt) }
    IN IF M = {} THEN "DROP"
       ELSE table[CHOOSE i \in M : \A j \in M : table[j].priority <= table[i].priority].out

FlowMod(e) == [type |-> "FLOW_MOD", entry |-> e]

PacketOut(pkt, in_port, out, honey) ==
    [type |-> "PACKET_OUT", pkt |-> pkt, in_port |-> in_port, out |-> out, honey |-> honey]

RECURSIVE HoneyMods(_, _)
\* update_honeypot_flows toward one switch: one flow-mod per address, in order
HoneyMods(honey_ips, i) ==
    IF i > Len(honey_ips) THEN <<>>
    ELSE <<FlowMod(FlowEntry(100, HoneyMatch(honey_ips[i]), "CONTROLLER"))>>
         \o HoneyMods(honey_ips, i + 1)

NoPorts == [m \in {} |-> 0]

\* self.mac_to_port[dpid][src] = in_port
Learn(tbl, src, in_port) ==
    [m \in (DOMAIN tbl) \cup {src} |-> IF m = src THEN in_port ELSE tbl[m]]

NetInit ==
    /\ budget = ControllerBudget
    /\ snapshot_file = "present"
    /\ nodes_data \in NetNodeLists
    /\ datapaths = {}
    /\ flows = [sw \in Switches |-> <<>>]
    /\ game_thread = "alive"
    /\ round_count = 0
    /\ status = "NONE"
    /\ honeypot_nodes = <<>>
    /\ active_honey_ips = <<>>
    /\ round_dps = {}
    /\ flows_before = flows
    /\ prev = [ran |-> FALSE, ips |-> <<>>, dps |-> {}]
    /\ results = {}
    /\ chan = [sw \in Switches |-> <<>>]
    /\ mac_to_port = [sw \in Switches |-> NoPorts]
    /\ packet_in = <<>>
    /\ delivered = {}
    /\ arrivals = 0

\* switch_features_handler: record the datapath, send the table-miss entry
NetSwitchFeatures ==
    \E sw \in Switches \ datapaths :
        /\ Len(chan[sw]) < MaxInFlight
        /\ datapaths' = datapaths \cup {sw}
        /\ chan' = [chan EXCEPT ![sw] = Append(@, FlowMod(FlowEntry(0, AnyMatch, "CONTROLLER")))]
        /\ UNCHANGED <<budget, snapshot_file, nodes_data, flows, game_thread, round_count,
                       status, honeypot_nodes, active_honey_ips, round_dps, flows_before,
                       prev, results, mac_to_port, packet_in, delivered, arrivals,
                       inVars, probVars, matVars, loaderVars>>

\* game_loop, one iteration with no node data
NetRoundNoData ==
    /\ game_thread = "alive"
    /\ round_count < NetRounds
    /\ nodes_data = <<>>
    /\ round_count' = round_count + 1
    /\ UNCHANGED <<budget, snapshot_file, nodes_data, datapaths, flows, game_thread, status,
                   honeypot_nodes, active_honey_ips, round_dps, flows_before, prev, results,
                   netVars, inVars, probVars, matVars, loaderVars>>

\* game_loop, one iteration: optimise, map names to addresses, and send one
\* flow-mod per address to every switch of self.datapaths
NetRound ==
    /\ game_thread = "alive"
    /\ round_count < NetRounds
    /\ nodes_data # <<>>
    /\ ~ComputeKeyError(nodes_data)
    /\ \E outcome \in Optimize(nodes_data, budget) :
         LET names == compute_optimal_placement(nodes_data, outcome)
             ips   == IpsOf(nodes_data, names, 1)
         IN /\ ~ParseKeyError(nodes_data, outcome)
            /\ ~LoopKeyError(nodes_data, names)
            /\ \A sw \in datapaths : Len(chan[sw]) + Len(ips) <= MaxInFlight
            /\ round_count' = round_count + 1
            /\ status' = outcome.status
            /\ honeypot_nodes' = names
            /\ active_honey_ips' = ips
            /\ chan' = [sw \in Switches |->
                          IF sw \in datapaths THEN chan[sw] \o HoneyMods(ips, 1) ELSE chan[sw]]
            /\ round_dps' = datapaths
            /\ flows_before' = flows
            /\ prev' = [ran |-> status # "NONE", ips |-> active_honey_ips,
                        dps |-> round_dps]
            /\ results' = results \cup {[status |-> outcome.status, ret |-> names]}
    /\ UNCHANGED <<budget, snapshot_file, nodes_data, datapaths, flows, game_thread,
                   mac_to_port, packet_in, delivered, arrivals, inVars, probVars, matVars, loaderVars>>

\* a switch takes the next message of its connection: a flow-mod changes its
\* table, a packet-out puts the frame on the port named by the action
SwitchApply ==
    \E sw \in Switches :
        /\ chan[sw] # <<>>
        /\ chan' = [chan EXCEPT ![sw] = Tail(@)]
        /\ LET msg == Head(chan[sw])
           IN IF msg.type = "FLOW_MOD"
              THEN /\ flows' = [flows EXCEPT ![sw] = AddFlow(@, msg.entry)]
                   /\ UNCHANGED delivered
              ELSE /\ delivered' = delivered \cup
                          {[sw |-> sw, pkt |-> msg.pkt, out |-> msg.out, honey |-> msg.honey]}
                   /\ UNCHANGED flows
        /\ UNCHANGED <<budget, snapshot_file, nodes_data, datapaths, game_thread, round_count,
                       status, honeypot_nodes, active_honey_ips, round_dps, flows_before,
                       prev, results, mac_to_port, packet_in, arrivals,
                       inVars, probVars, matVars, loaderVars>>

\* a frame arrives at a switch: the table decides between the controller
\* (packet-in, the whole frame, no buffer), a port, and dropping the frame
PacketArrives ==
    /\ arrivals < MaxPackets
    /\ arrivals' = arrivals + 1
    /\ \E sw \in Switches, pkt \in Packets :
         LET in_port == InPort(pkt)
             out     == Lookup(flows[sw], in_port, pkt)
             honey   == pkt.eth_type = IPv4 /\ pkt.ipv4_dst \in HoneyIps(flows[sw])
         IN IF out = "CONTROLLER"
            THEN /\ packet_in' = Append(packet_in, [dpid |-> sw, in_port |-> in_port,
                                                    pkt |-> pkt, honey |-> honey])
                 /\ UNCHANGED delivered
            ELSE IF out = "DROP"
            THEN UNCHANGED <<packet_in, delivered>>
            ELSE /\ delivered' = delivered \cup
                        {[sw |-> sw, pkt |-> pkt, out |-> out, honey |-> honey]}
                 /\ UNCHANGED packet_in
    /\ UNCHANGED <<ctlVars, chan, mac_to_port, inVars, probVars, matVars, loaderVars>>

\* _packet_in_handler: ignore LLDP; learn the source; output to the learned
\* port of the destination or flood; install the priority-1 entry when the
\* port is known; send the frame back out with a packet-out
PacketInHandler ==
    /\ packet_in # <<>>
    /\ packet_in' = Tail(packet_in)
    /\ LET ev       == Head(packet_in)
           dpid     == ev.dpid
           src      == ev.pkt.eth_src
           dst      == ev.pkt.eth_dst
           learned  == Learn(mac_to_port[dpid], src, ev.in_port)
           out_port == IF dst \in DOMAIN learned THEN PortName(learned[dst]) ELSE "FLOOD"
           msgs     == (IF out_port # "FLOOD"
                        THEN <<FlowMod(FlowEntry(1, L2Match(ev.in_port, dst, src), out_port))>>
                        ELSE <<>>)
                       \o <<PacketOut(ev.pkt, ev.in_port, out_port, ev.honey)>>
       IN IF ev.pkt.eth_type = LLDP
          THEN UNCHANGED <<mac_to_port, chan>>
          ELSE /\ Len(chan[dpid]) + Len(msgs) <= MaxInFlight
               /\ mac_to_port' = [mac_to_port EXCEPT ![dpid] = learned]
               /\ chan' = [chan EXCEPT ![dpid] = @ \o msgs]
    /\ UNCHANGED <<ctlVars, delivered, arrivals, inVars, probVars, matVars, loaderVars>>

----------------------------------------------------------------------------
(* CVEDataLoader.get_random_vuln and the hosts FourZoneTopo builds from    *)
(* its records.  impact_score is in tenths, exploit_prob in hundredths.    *)

\* base scores of pool records (clean_nvd keeps scores of 7.0 and above)
Scores == {70, 79, 80, 98}

\* a record as clean_nvd writes it: no 'deploy_cost'
PoolRecord(i, score) ==
    [cve_id |-> i, impact_score |-> score, exploit_prob |-> 39,
     resource_req |-> "High-Interaction"]

Pools ==
    UNION { { [i \in 1..n |-> PoolRecord(i, sc[i])] : sc \in [1..n -> Scores] } :
            n \in 1..MaxPool }

\* the score ranges of the zones (dmz, biz, ops, office) and the default range
Zones ==
    { [prefix |-> "dmz",    min_score |-> 90, max_score |-> 100],
      [prefix |-> "biz",    min_score |-> 75, max_score |-> 90],
      [prefix |-> "ops",    min_score |-> 80, max_score |-> 100],
      [prefix |-> "office", min_score |-> 0,  max_score |-> 70],
      [prefix |-> "any",    min_score |-> 0,  max_score |-> 100] }

NoRecord == [f \in {} |-> 0]

\* the positions of the records whose score lies in [min_score, max_score]
Candidates(pl, min_score, max_score) ==
    { i \in DOMAIN pl : min_score <= pl[i].impact_score /\ pl[i].impact_score <= max_score }

\* selected['resource_req'] = ..., selected['deploy_cost'] = ...
WithCost(v) ==
    [f \in (DOMAIN v) \cup {"resource_req", "deploy_cost"} |->
        IF f = "resource_req"
        THEN (IF v.impact_score < 80 THEN "Low-Interaction" ELSE "High-Interaction")
        ELSE IF f = "deploy_cost"
        THEN (IF v.impact_score < 80 THEN 1 ELSE 5)
        ELSE v[f]]

\* get_random_vuln: for every draw of random.choice, the pool after the call
\* (the selected record is changed in place) and the record returned
get_random_vuln(pl, min_score, max_score) ==
    LET candidates == Candidates(pl, min_score, max_score)
    IN IF candidates = {}
       THEN { [pool |-> pl, ret |-> pl[i]] : i \in DOMAIN pl }
       ELSE { [pool |-> [pl EXCEPT ![i] = WithCost(pl[i])], ret |-> WithCost(pl[i])] :
                i \in candidates }

LoaderInit ==
    /\ pool \in Pools
    /\ vuln_info = NoRecord
    /\ hosts = <<>>
    /\ topo = "building"
    /\ calls = 0

\* a call of get_random_vuln on its own
CallGetRandomVuln ==
    /\ topo = "building"
    /\ calls < MaxCalls
    /\ \E z \in Zones : \E r \in get_random_vuln(pool, z.min_score, z.max_score) :
         /\ pool' = r.pool
         /\ vuln_info' = r.ret
    /\ calls' = calls + 1
    /\ UNCHANGED <<hosts, topo, ctlVars, inVars, probVars, matVars, netVars>>

\* _add_zone_hosts, one host: draw a record and copy its fields into the
\* host's parameters; a record without 'deploy_cost' raises KeyError
AddZoneHost ==
    /\ topo = "building"
    /\ calls < MaxCalls
    /\ \E z \in Zones : \E r \in get_random_vuln(pool, z.min_score, z.max_score) :
         /\ pool' = r.pool
         /\ vuln_info' = r.ret
         /\ IF Has(r.ret, "deploy_cost")
            THEN /\ hosts' = Append(hosts, [prefix |-> z.prefix,
                                            impact_val |-> r.ret.impact_score,
                                            exploit_prob |-> r.ret.exploit_prob,
                                            deploy_cost |-> r.ret.deploy_cost,
                                            cve_id |-> r.ret.cve_id])
                 /\ topo' = topo
            ELSE /\ hosts' = hosts
                 /\ topo' = "crashed"
    /\ calls' = calls + 1
    /\ UNCHANGED <<ctlVars, inVars, probVars, matVars, netVars>>

----------------------------------------------------------------------------
(* Exact rational arithmetic: a rational is <<numerator, denominator>> in  *)
(* lowest terms with a positive denominator.                               *)

RECURSIVE GCD(_, _)
GCD(a, b) == IF b = 0 THEN a ELSE GCD(b, a % b)

Abs(a) == IF a < 0 THEN -a ELSE a

Rat(a, b) == LET g == GCD(Abs(a), b) IN <<a \div g, b \div g>>

RAdd(x, y) ==
    LET g == GCD(x[2], y[2])
        l == (x[2] \div g) * y[2]
    IN Rat(x[1] * (l \div x[2]) + y[1] * (l \div y[2]), l)

RNeg(x) == <<-x[1], x[2]>>

RSub(x, y) == RAdd(x, RNeg(y))

RMul(x, y) ==
    LET g1 == GCD(Abs(x[1]), y[2])
        g2 == GCD(Abs(y[1]), x[2])
    IN Rat((x[1] \div g1) * (y[1] \div g2), (x[2] \div g2) * (y[2] \div g1))

\* x / y for y > 0
RDiv(x, y) == RMul(x, <<y[2], y[1]>>)

RECURSIVE RSumFrom(_, _)
RSumFrom(xs, i) == IF i > Len(xs) THEN <<0, 1>> ELSE RAdd(xs[i], RSumFrom(xs, i + 1))

\* sum(xs) of a list of rationals
RSum(xs) == RSumFrom(xs, 1)

Zero == <<0, 1>>
One == <<1, 1>>

----------------------------------------------------------------------------
(* clean_ids_transitions.py                                                *)

STATE_ORDER == <<"Benign", "PortScan", "BruteForce", "WebAttack", "DoS", "Botnet">>

States == Range(STATE_ORDER)

\* np.log1p(v) to six decimals, v = 0, 1, 2, ...
Log1pTable == <<0, 693147, 1098612, 1386294, 1609438, 1791759, 1945910>>

log1p(v) == Rat(Log1pTable[v + 1], 1000000)

\* eps = 1e-6
eps == <<1, 1000000>>

\* mix_ratio = 0.7
mix_ratio == <<7, 10>>

\* counts.get(t, 0)
Get(c, t) == IF t \in DOMAIN c THEN c[t] ELSE 0

RECURSIVE WeightsFrom(_, _, _, _)
\* lines 99-105: [np.log1p(v) + eps for v in raw_vals] or [v + eps for v in raw_vals],
\* raw_vals = [counts.get(t, 0) for t in targets]
WeightsFrom(tg, c, ul, i) ==
    IF i > Len(tg) THEN <<>>
    ELSE << IF ul THEN RAdd(log1p(Get(c, tg[i])), eps)
            ELSE RAdd(<<Get(c, tg[i]), 1>>, eps) >>
         \o WeightsFrom(tg, c, ul, i + 1)

RECURSIVE Uniform(_, _)
\* [1.0 / len(targets)] * len(targets)
Uniform(n, i) == IF i > n THEN <<>> ELSE <<Rat(1, n)>> \o Uniform(n, i + 1)

RECURSIVE DivideAll(_, _, _)
\* [w / total for w in ws]
DivideAll(ws, total, i) ==
    IF i > Len(ws) THEN <<>>
    ELSE <<RDiv(ws[i], total)>> \o DivideAll(ws, total, i + 1)

\* lines 107-111: data_probs from the weights
Normalized(weights) ==
    IF RSum(weights) = Zero THEN Uniform(Len(weights), 1)
    ELSE DivideAll(weights, RSum(weights), 1)

\* lines 99-111
DataProbs(tg, c, ul) == Normalized(WeightsFrom(tg, c, ul, 1))

MixTermMinus(p, n) ==
    RSub(RMul(mix_ratio, p), RMul(RSub(One, mix_ratio), Rat(1, n)))

MixTermSwapped(p, n) ==
    RAdd(RMul(RSub(One, mix_ratio), p), RMul(mix_ratio, Rat(1, n)))

\* new_p = (mix_ratio * p) + ((1 - mix_ratio) * uniform_prob), uniform_prob = 1/n
MixTerm(p, n) ==
    RAdd(RMul(mix_ratio, p), RMul(RSub(One, mix_ratio), Rat(1, n)))

RECURSIVE MixFrom(_, _)
\* for p in data_probs: final_probs.append(new_p)
MixFrom(dp, i) ==
    IF i > Len(dp) THEN <<>> ELSE <<MixTerm(dp[i], Len(dp))>> \o MixFrom(dp, i + 1)

\* lines 116-123: the mixed list final_probs
MixProbs(dp) == MixFrom(dp, 1)

\* lines 126-127: [fp / final_total for fp in final_probs]
Renormalize(fp) == DivideAll(fp, RSum(fp), 1)

get_weighted_probs(tg, c, ul) == Renormalize(MixProbs(DataProbs(tg, c, ul)))

\* idx = {s: i for i, s in enumerate(STATE_ORDER)}, counted from 1
idx(s) == CHOOSE i \in DOMAIN STATE_ORDER : STATE_ORDER[i] = s

FillBruteForceGivesUp(probs_attack, probs_next, probs_next_web) ==
    << <<<<8, 10>>, <<2, 10>>, Zero, Zero, Zero, Zero>>,
       <<<<1, 10>>, Zero, RMul(probs_attack[1], <<9, 10>>),
                          RMul(probs_attack[2], <<9, 10>>), Zero, Zero>>,
       <<<<1, 10>>, Zero, Zero, Zero, probs_next[1], probs_next[2]>>,
       <<Zero, Zero, Zero, Zero, probs_next_web[1], probs_next_web[2]>>,
       <<<<1, 10>>, Zero, Zero, Zero, <<9, 10>>, Zero>>,
       <<<<1, 10>>, Zero, Zero, Zero, Zero, <<9, 10>>>> >>

FillNoWebRow(probs_attack, probs_next, probs_next_web) ==
    << <<<<8, 10>>, <<2, 10>>, Zero, Zero, Zero, Zero>>,
       <<<<1, 10>>, Zero, RMul(probs_attack[1], <<9, 10>>),
                          RMul(probs_attack[2], <<9, 10>>), Zero, Zero>>,
       <<Zero, Zero, Zero, Zero, probs_next[1], probs_next[2]>>,
       <<Zero, Zero, Zero, Zero, Zero, Zero>>,
       <<<<1, 10>>, Zero, Zero, Zero, <<9, 10>>, Zero>>,
       <<<<1, 10>>, Zero, Zero, Zero, Zero, <<9, 10>>>> >>

FillNoReset(probs_attack, probs_next, probs_next_web) ==
    << <<<<8, 10>>, <<2, 10>>, Zero, Zero, Zero, Zero>>,
       <<<<1, 10>>, Zero, RMul(probs_attack[1], <<9, 10>>),
                          RMul(probs_attack[2], <<9, 10>>), Zero, Zero>>,
       <<Zero, Zero, Zero, Zero, probs_next[1], probs_next[2]>>,
       <<Zero, Zero, Zero, Zero, probs_next_web[1], probs_next_web[2]>>,
       <<Zero, Zero, Zero, Zero, <<9, 10>>, Zero>>,
       <<Zero, Zero, Zero, Zero, Zero, <<9, 10>>>> >>

\* lines 150-192: np.zeros((n, n)) with the fixed and the data-derived entries
\* filled in; rows and columns in STATE_ORDER, attack_prob_total = 0.9
Fill(probs_attack, probs_next, probs_next_web) ==
    << <<<<8, 10>>, <<2, 10>>, Zero, Zero, Zero, Zero>>,
       <<<<1, 10>>, Zero, RMul(probs_attack[1], <<9, 10>>),
                          RMul(probs_attack[2], <<9, 10>>), Zero, Zero>>,
       <<Zero, Zero, Zero, Zero, probs_next[1], probs_next[2]>>,
       <<Zero, Zero, Zero, Zero, probs_next_web[1], probs_next_web[2]>>,
       <<<<1, 10>>, Zero, Zero, Zero, <<9, 10>>, Zero>>,
       <<<<1, 10>>, Zero, Zero, Zero, Zero, <<9, 10>>>> >>

\* lines 144, 164, 173, 181: the processed counts and the three data-derived lists
FilledMatrix(c, ul) ==
    LET state_counts == [s \in States |-> Get(c, s)]
    IN Fill(get_weighted_probs(<<"BruteForce", "WebAttack">>, state_counts, ul),
            get_weighted_probs(<<"DoS", "Botnet">>, state_counts, ul),
            get_weighted_probs(<<"DoS", "Botnet">>, state_counts, ul))

RECURSIVE NormalizeFrom(_, _)
\* np.divide(mat, row_sums, where=row_sums != 0): a row with a zero sum is not divided
NormalizeFrom(m, i) ==
    IF i > Len(m) THEN <<>>
    ELSE << IF RSum(m[i]) # Zero THEN DivideAll(m[i], RSum(m[i]), 1) ELSE m[i] >>
         \o NormalizeFrom(m, i + 1)

\* lines 195-197
NormalizeRows(m) == NormalizeFrom(m, 1)

build_transition_matrix_from_counts(c, ul) == NormalizeRows(FilledMatrix(c, ul))

\* the entry of row s, column t (df.loc[s, t])
P(m, s, t) == m[idx(s)][idx(t)]

----------------------------------------------------------------------------
(* Inputs of the transition-model functions                                *)

\* non-empty destination lists
TargetLists == UNION { [1..n -> States] : n \in 1..MaxTargets }

\* count mappings over the keys D
CountMaps(D) == UNION { [K -> 0..MaxCount] : K \in SUBSET D }

\* probability vectors of length n whose entries are multiples of 1/d
Simplex(n, d) ==
    { v \in [1..n -> 0..d] : SumOver(1..n, v) = d }

Distributions ==
    UNION { { [i \in 1..n |-> Rat(v[i], d)] : v \in Simplex(n, d) } :
              n \in 1..MixLen, d \in 1..MaxDen }

NoMatrix == [i \in DOMAIN STATE_ORDER |-> [j \in DOMAIN STATE_ORDER |-> Zero]]

CtlIdle ==
    /\ budget = 0 /\ snapshot_file = "absent" /\ nodes_data = <<>> /\ datapaths = {} /\ flows = <<>>
    /\ game_thread = "dead" /\ round_count = 0 /\ status = "NONE" /\ honeypot_nodes = <<>>
    /\ active_honey_ips = <<>> /\ round_dps = {} /\ flows_before = <<>>
    /\ prev = [ran |-> FALSE, ips |-> <<>>, dps |-> {}] /\ results = {}

ProbIdle ==
    /\ targets = <<>> /\ data_probs = <<>> /\ mixed_probs = <<>>
    /\ final_probs = <<>> /\ called = FALSE

MatIdle == mat = NoMatrix /\ built = FALSE /\ current_state = "Benign"

InIdle == counts = <<>> /\ use_log = TRUE

NetIdle ==
    /\ chan = <<>> /\ mac_to_port = <<>> /\ packet_in = <<>>
    /\ delivered = {} /\ arrivals = 0

LoaderIdle ==
    /\ pool = <<>> /\ vuln_info = NoRecord /\ hosts = <<>>
    /\ topo = "building" /\ calls = 0

vars == <<ctlVars, inVars, probVars, matVars, netVars, loaderVars>>

----------------------------------------------------------------------------
(* Spec: the controller with its strategy engine, started on a snapshot as *)
(* run_experiment writes it: every entry has all five keys, so no round    *)
(* ends by a KeyError (SpecSnapshot starts from the other snapshots)       *)

Init == CtlInit /\ InIdle /\ ProbIdle /\ MatIdle /\ NetIdle /\ LoaderIdle

Next == SwitchFeatures \/ RoundNoData \/ Round

Spec == Init /\ [][Next]_vars

----------------------------------------------------------------------------
(* SpecSnapshot: the controller started on a snapshot that is absent or    *)
(* has an incomplete entry                                                 *)

SnapshotInit ==
    /\ budget \in Budgets
    /\ snapshot_file \in {"present", "absent"}
    /\ nodes_data \in (IF snapshot_file = "absent" THEN {<<>>} ELSE MalformedLists)
    /\ datapaths = {}
    /\ flows = [sw \in Switches |-> <<>>]
    /\ game_thread = "alive"
    /\ round_count = 0
    /\ status = "NONE"
    /\ honeypot_nodes = <<>>
    /\ active_honey_ips = <<>>
    /\ round_dps = {}
    /\ flows_before = flows
    /\ prev = [ran |-> FALSE, ips |-> <<>>, dps |-> {}]
    /\ results = {}
    /\ InIdle /\ ProbIdle /\ MatIdle /\ NetIdle /\ LoaderIdle

SnapshotNext == SwitchFeatures \/ RoundNoData \/ Round \/ RoundKeyError

SpecSnapshot == SnapshotInit /\ [][SnapshotNext]_vars

----------------------------------------------------------------------------
(* SpecNet: the controller, its switches and the frames of the hosts, one  *)
(* OpenFlow message at a time                                              *)

InitNet == NetInit /\ InIdle /\ ProbIdle /\ MatIdle /\ LoaderIdle

NextNet ==
    \/ NetSwitchFeatures \/ NetRoundNoData \/ NetRound
    \/ SwitchApply \/ PacketArrives \/ PacketInHandler

SpecNet == InitNet /\ [][NextNet]_vars

----------------------------------------------------------------------------
(* SpecLoader: get_random_vuln called again and again on every small pool  *)

InitLoader == LoaderInit /\ CtlIdle /\ InIdle /\ ProbIdle /\ MatIdle /\ NetIdle

NextLoader == CallGetRandomVuln \/ AddZoneHost

SpecLoader == InitLoader /\ [][NextLoader]_vars

----------------------------------------------------------------------------
(* SpecProbs: get_weighted_probs on every destination list and count map   *)

ProbsInit ==
    /\ targets \in TargetLists
    /\ counts \in CountMaps(Range(targets))
    /\ use_log \in BOOLEAN
    /\ data_probs = <<>> /\ mixed_probs = <<>> /\ final_probs = <<>>
    /\ called = FALSE
    /\ CtlIdle /\ MatIdle /\ NetIdle /\ LoaderIdle

CallWeightedProbs ==
    /\ ~called
    /\ data_probs' = DataProbs(targets, counts, use_log)
    /\ mixed_probs' = MixProbs(data_probs')
    /\ final_probs' = get_weighted_probs(targets, counts, use_log)
    /\ called' = TRUE
    /\ UNCHANGED <<targets, inVars, ctlVars, matVars, netVars, loaderVars>>

ProbsNext == CallWeightedProbs

SpecProbs == ProbsInit /\ [][ProbsNext]_vars

----------------------------------------------------------------------------
(* SpecMix: the mixing step (lines 113-127) on every small distribution    *)

MixInit ==
    /\ data_probs \in Distributions
    /\ targets = <<>> /\ mixed_probs = <<>> /\ final_probs = <<>>
    /\ called = FALSE
    /\ CtlIdle /\ MatIdle /\ InIdle /\ NetIdle /\ LoaderIdle

MixStep ==
    /\ ~called
    /\ mixed_probs' = MixProbs(data_probs)
    /\ final_probs' = Renormalize(MixProbs(data_probs))
    /\ called' = TRUE
    /\ UNCHANGED <<targets, data_probs, inVars, ctlVars, matVars, netVars, loaderVars>>

MixNext == MixStep

SpecMix == MixInit /\ [][MixNext]_vars

----------------------------------------------------------------------------
(* SpecMatrix: the matrix built from every count map, and the attacker's   *)
(* walk over it                                                            *)

MatrixInit ==
    /\ counts \in CountMaps(States)
    /\ use_log \in BOOLEAN
    /\ MatIdle /\ CtlIdle /\ ProbIdle /\ NetIdle /\ LoaderIdle

BuildMatrix ==
    /\ ~built
    /\ mat' = build_transition_matrix_from_counts(counts, use_log)
    /\ built' = TRUE
    /\ UNCHANGED <<current_state, inVars, ctlVars, probVars, netVars, loaderVars>>

\* AttackerAgent: draw the next state from the current state's row
AttackerStep ==
    /\ built
    /\ \E t \in States :
         /\ P(mat, current_state, t)[1] > 0
         /\ current_state' = t
    /\ UNCHANGED <<mat, built, inVars, ctlVars, probVars, netVars, loaderVars>>

MatrixNext == BuildMatrix \/ AttackerStep

SpecMatrix == MatrixInit /\ [][MatrixNext]_vars

----------------------------------------------------------------------------
(* Properties of the placement optimizer and of the round loop             *)

\* the positions of nodes_data whose name is in the returned list
SelectedIdx == { i \in DOMAIN nodes_data : nodes_data[i].name \in Range(honeypot_nodes) }

TotalCost(S) == SumOver(S, [i \in DOMAIN nodes_data |-> nodes_data[i].cost])

TotalValue(S) ==
    SumOver(S, [i \in DOMAIN nodes_data |-> nodes_data[i].impact * nodes_data[i].prob])

\* C1: whenever the optimizer returns a selection (status OPTIMAL), the sum of
\* the cost fields of the selected assets is at most the budget, in every round.
C1_CostWithinBudget ==
    status = "OPTIMAL" => TotalCost(SelectedIdx) <= budget

\* a later round whose selection spends the budget exactly
C1_Witness ==
    /\ status = "OPTIMAL"
    /\ round_count >= 2
    /\ honeypot_nodes # <<>>
    /\ TotalCost(SelectedIdx) = budget

ABC == <<AssetPool[1], AssetPool[2], AssetPool[3]>>

\* C2: the returned set's value, the sum of impact * prob, is at least the value
\* of every subset whose cost is within the budget; on A = dmz_1, B = office_1,
\* C = office_2 the result is {A} at budget 5 and {A, B} at budget 6.
C2_Optimal ==
    status = "OPTIMAL" =>
        /\ \A T \in SUBSET (DOMAIN nodes_data) :
              TotalCost(T) <= budget => TotalValue(T) <= TotalValue(SelectedIdx)
        /\ (nodes_data = ABC /\ budget = 5) => honeypot_nodes = <<"dmz_1">>
        /\ (nodes_data = ABC /\ budget = 6) => honeypot_nodes = <<"dmz_1", "office_1">>

\* the example instance solved at budget 6
C2_Witness ==
    /\ status = "OPTIMAL"
    /\ nodes_data = ABC
    /\ budget = 6
    /\ honeypot_nodes = <<"dmz_1", "office_1">>

\* C3 (as claimed): after a completed round that found an optimum and pushed it
\* to at least one connected switch, the addresses with a honeypot rule on a
\* connected switch are exactly the addresses selected in that round.
C3_EnforcedIsLatestSelection ==
    (status = "OPTIMAL" /\ round_dps # {}) => Enforced = Range(active_honey_ips)

\* the honeypot entries of a flow table, in table order
HoneyEntries(table) == SelectSeq(table, LAMBDA e : e.priority = 100)

\* C4: a round whose solver status is not optimal leaves the honeypot rules of
\* every switch as they were when the round began, and the loop is still
\* running, ready for the next round.
C4_FailedRoundKeepsRules ==
    (status \notin {"NONE", "OPTIMAL"}) =>
        /\ \A sw \in Switches : HoneyEntries(flows[sw]) = HoneyEntries(flows_before[sw])
        /\ game_thread = "alive"

\* a failed round that followed a round which installed rules
C4_Witness ==
    /\ status \notin {"NONE", "OPTIMAL"}
    /\ prev.ran /\ prev.ips # <<>> /\ prev.dps # {}
    /\ Enforced = Range(prev.ips)
    /\ round_count < MaxRounds

\* C9: when update_honeypot_flows is called again with the address list and the
\* switches of the call before it, the honeypot entries of those switches are
\* what they were before the second call: same addresses, no entry added.
C9_InstallTwiceIsNoOp ==
    (prev.ran /\ prev.ips = active_honey_ips /\ prev.dps = round_dps) =>
        \A sw \in round_dps :
            /\ HoneyEntries(flows[sw]) = HoneyEntries(flows_before[sw])
            /\ HoneyIps(flows[sw]) = HoneyIps(flows_before[sw])

\* the same non-empty list installed twice on the same non-empty set of switches
C9_Witness ==
    /\ prev.ran /\ prev.ips = active_honey_ips /\ prev.dps = round_dps
    /\ round_dps # {}
    /\ Len(active_honey_ips) >= 2

\* C10 (as claimed): an optimizer call that ended without an optimum and a call
\* that found the optimum never hand the caller the same result.
C10_StatusVisibleInResult ==
    \A a, b \in results :
        (a.status = "OPTIMAL" /\ b.status # "OPTIMAL") => a.ret # b.ret

----------------------------------------------------------------------------
(* Properties of the transition model                                      *)

\* C5: every row of the matrix built from any count map, with log-scaling on
\* or off, sums to 1, has no negative entry and is not identically zero.
C5_RowStochastic ==
    built =>
        \A i \in DOMAIN mat :
            /\ RSum(mat[i]) = One
            /\ \A j \in DOMAIN mat[i] : mat[i][j][1] >= 0 /\ mat[i][j][2] > 0
            /\ \E j \in DOMAIN mat[i] : mat[i][j] # Zero

\* a matrix built from counts that are all zero, with Botnet missing
C5_Witness ==
    /\ built
    /\ "DoS" \in DOMAIN counts /\ "Botnet" \notin DOMAIN counts
    /\ \A s \in DOMAIN counts : counts[s] = 0

\* C6: for a non-empty destination list and any count map, every entry of the
\* list get_weighted_probs returns is strictly positive and the entries sum to
\* 1; a destination absent from the map counts as zero.
C6_AllPositive ==
    called =>
        /\ Len(final_probs) = Len(targets)
        /\ \A i \in DOMAIN final_probs : final_probs[i][1] > 0 /\ final_probs[i][2] > 0
        /\ RSum(final_probs) = One

\* two destinations, one absent from the map and one counted zero times
C6_Witness ==
    /\ called
    /\ Len(targets) = 2
    /\ targets[1] \notin DOMAIN counts
    /\ targets[2] \in DOMAIN counts /\ counts[targets[2]] = 0
    /\ final_probs = <<<<1, 2>>, <<1, 2>>>>

\* C7: the mixing step maps each probability p over n destinations to
\* 0.7 p + 0.3 / n; the one-hot [1, 0] becomes [0.85, 0.15]; and dividing the
\* mixed list by its sum leaves it unchanged.
C7_MixingFormula ==
    called =>
        /\ \A i \in DOMAIN data_probs :
              mixed_probs[i] = RAdd(RMul(<<7, 10>>, data_probs[i]),
                                    Rat(3, 10 * Len(data_probs)))
        /\ data_probs = <<One, Zero>> => final_probs = <<<<17, 20>>, <<3, 20>>>>
        /\ final_probs = mixed_probs

\* the one-hot distribution over two destinations, mixed
C7_Witness ==
    /\ called
    /\ data_probs = <<One, Zero>>
    /\ final_probs = <<<<17, 20>>, <<3, 20>>>>

\* the rows (as positions in STATE_ORDER) one step away from row i with
\* positive probability
Succ(m, i) == { j \in DOMAIN m[i] : m[i][j][1] > 0 }

RECURSIVE Closure(_, _)
Closure(m, S) ==
    LET N == S \cup UNION { Succ(m, i) : i \in S }
    IN IF N = S THEN S ELSE Closure(m, N)

\* the rows reachable from row i in one or more steps
ReachableFrom(m, i) == Closure(m, Succ(m, i))

\* C8: the walk over the built matrix has no terminal state: every state has
\* an outgoing transition of positive probability, DoS and Botnet each have a
\* self-loop and a transition back to Benign, Benign is reachable again from
\* every state the walk can reach, and the attacker can always take a step.
C8_NoTerminalState ==
    built =>
        /\ \A i \in DOMAIN mat : Succ(mat, i) # {}
        /\ \A s \in {"DoS", "Botnet"} : {idx(s), idx("Benign")} \subseteq Succ(mat, idx(s))
        /\ \A i \in {idx("Benign")} \cup ReachableFrom(mat, idx("Benign")) :
              idx("Benign") \in ReachableFrom(mat, i)
        /\ idx(current_state) \in {idx("Benign")} \cup ReachableFrom(mat, idx("Benign"))
        /\ ENABLED AttackerStep

\* the walk has advanced from Benign to Botnet
C8_Witness ==
    /\ built
    /\ current_state = "Botnet"

----------------------------------------------------------------------------
(* Properties of the controller on a damaged snapshot                      *)

WellFormed(node) == NodeKeys \subseteq DOMAIN node

\* the entries of the snapshot that have every key, in order
WellFormedPart(nodes) == SelectSeq(nodes, WellFormed)

\* C11 (as claimed): after a round on a snapshot with an incomplete entry the
\* round loop is still running, the round reached the solver, and an optimal
\* round returned an optimum over the well-formed entries alone.
C11_MalformedEntrySkipped ==
    (round_count > 0 /\ \E i \in DOMAIN nodes_data : ~WellFormed(nodes_data[i])) =>
        /\ game_thread = "alive"
        /\ status # "NONE"
        /\ status = "OPTIMAL" =>
              \E o \in Optimize(WellFormedPart(nodes_data), budget) :
                  /\ o.status = "OPTIMAL"
                  /\ honeypot_nodes = SelectedNames(WellFormedPart(nodes_data), o.x, 1)

\* C12 (as claimed): when the snapshot file was absent at start-up the round
\* loop never iterates and no placement is ever computed.
C12_AbsentSnapshotIsFatal ==
    snapshot_file = "absent" => (round_count = 0 /\ status = "NONE")

----------------------------------------------------------------------------
(* Properties of the controller and its switches, message by message       *)

\* the addresses the latest round selected and the round before it did not
Added == Range(active_honey_ips) \ Range(prev.ips)

\* C13 (as claimed, read in the code's favour): at every moment, on every
\* connected switch, the addresses that the latest round added to the placement
\* have their honeypot rule all together or not at all; a switch showing only
\* some of them shows neither the previous round's set nor the new round's.
C13_ConsistentSnapshot ==
    \A sw \in datapaths :
        HoneyIps(flows[sw]) \cap Added \in {{}, Added}

\* C15 (as claimed): a switch never outputs on a port an IPv4 frame that reached
\* it while it held a honeypot rule for the frame's destination address, be it
\* by an entry of its own table or by a packet-out of the controller.
C15_HoneypotFrameNotForwarded ==
    \A d \in delivered : ~d.honey

----------------------------------------------------------------------------
(* Properties of the vulnerability sampler                                 *)

\* C14 (as claimed): the record returned by every get_random_vuln call carries
\* a deploy_cost, which is 1 when its impact_score is below 8.0 and 5 otherwise,
\* so that building a host from it never fails and every host has cost 1 or 5.
C14_ReturnedRecordHasCost ==
    calls > 0 =>
        /\ Has(vuln_info, "deploy_cost")
        /\ vuln_info.deploy_cost = (IF vuln_info.impact_score < 80 THEN 1 ELSE 5)
        /\ topo = "building"
        /\ \A i \in DOMAIN hosts : hosts[i].deploy_cost \in {1, 5}

----------------------------------------------------------------------------
(* The kill-chain order                                                    *)

\* the states with a positive transition into t
EnteredFrom(m, t) == { s \in States : P(m, s, t)[1] > 0 }

\* the states row s leads to with positive probability
LeadsTo(m, s) == { t \in States : P(m, s, t)[1] > 0 }

\* the order as a property of the matrix
KillChainMatrix(m) ==
    /\ EnteredFrom(m, "PortScan") = {"Benign"}
    /\ \A t \in {"BruteForce", "WebAttack"} :
          /\ EnteredFrom(m, t) = {"PortScan"}
          /\ LeadsTo(m, t) = {"DoS", "Botnet"}
          /\ RAdd(P(m, t, "DoS"), P(m, t, "Botnet")) = One
    /\ \A t \in {"DoS", "Botnet"} :
          EnteredFrom(m, t) = {"BruteForce", "WebAttack", t}

\* the order as a property of one step of the walk that changes the state
KillChainStep ==
    current_state' # current_state =>
        /\ current_state' = "PortScan" => current_state = "Benign"
        /\ current_state' \in {"BruteForce", "WebAttack"} => current_state = "PortScan"
        /\ current_state' \in {"DoS", "Botnet"} =>
              current_state \in {"BruteForce", "WebAttack"}
        /\ current_state \in {"BruteForce", "WebAttack"} =>
              current_state' \in {"DoS", "Botnet"}

\* C16: for every count map the matrix respects the kill-chain order, and so
\* does every step of the walk from Benign: PortScan is entered only from
\* Benign, BruteForce and WebAttack only from PortScan, DoS and Botnet only from
\* BruteForce or WebAttack or by their self-loop; BruteForce and WebAttack have
\* no self-loop and no return to Benign and lead to DoS or Botnet with
\* probability 1.
C16_KillChainOrder ==
    /\ [](built => KillChainMatrix(mat))
    /\ [][KillChainStep]_vars

\* the walk has reached DoS although DoS was never observed in the data
C16_Witness ==
    /\ built
    /\ current_state = "DoS"
    /\ "DoS" \notin DOMAIN counts
    /\ "WebAttack" \in DOMAIN counts /\ counts["WebAttack"] = MaxCount

====
